---- MODULE Spec2Model ----
(***************************************************************************)
(* A model of the in-memory todo application: the TaskStore of             *)
(* src/src/store.py (add, get, list, update, delete over a list of Task    *)
(* records and an id counter), driven by direct calls.                     *)
(*                                                                         *)
(* Python values are encoded as follows.                                   *)
(*   - an Optional value is a sequence of length 0 (None) or 1;            *)
(*   - a str is a TLA+ string; Chars decodes it into its characters so     *)
(*     that str.strip() is computed, not assumed;                          *)
(*   - the **changes dict of update is a record with one Optional slot per *)
(*     keyword: a slot that is None means the key is not in the dict;      *)
(*   - datetime.now() reads the variable now, which the Tick action        *)
(*     advances;                                                           *)
(*   - call is the call made last (its name, the exception it raised and,  *)
(*     for add, the id of the task it returned), added counts the add      *)
(*     calls that returned and deleted holds the ids for which a delete    *)
(*     returned True;                                                      *)
(*   - thr holds, for each thread of the REST front end's thread pool,     *)
(*     where it is in the store method it runs and that method's locals;   *)
(*   - resp is the response of the REST handler that ran last;             *)
(*   - console is the console front end: whether the loop of run() is      *)
(*     still prompting, and the message that a command returned or the     *)
(*     loop printed last.                                                  *)
(***************************************************************************)
EXTENDS Integers, Sequences, FiniteSets

VARIABLES tasks, next_id, now, call, added, deleted, thr, resp, console

vars ==
  <<tasks, next_id, now, call, added, deleted, thr, resp, console>>

\* ---------------------------------------------------------------- bounds

\* The number of tasks that are ever created.
MaxAdds == 2

\* The last value of the clock.
MaxTime == 1

\* ------------------------------------------------------- Optional values

None == <<>>

Some(v) == <<v>>

IsNone(o) == Len(o) = 0

IsSome(o) == Len(o) = 1

Val(o) == o[1]

Opt(S) == {None} \cup {Some(v) : v \in S}

\* ---------------------------------------------------------------- strings

\* The titles and descriptions a caller may pass: an empty title, a
\* whitespace-only one and one with leading whitespace; the default
\* description and another one.
Titles == {"", " ", " a"}

Descriptions == {"", "d"}

\* The values the actions pass. The store reads a title only in add (to
\* reject a blank one) and never reads a description: it stores them. The
\* Add action passes every title and one description, the Update action
\* one title (a blank one, which add would reject) and one description;
\* the properties of add and update quantify over all of Titles and
\* Descriptions in every reachable state.
AddDescriptions == {"d"}

UpdateTitles == {""}

UpdateDescriptions == {"d"}

\* The characters of a string.
Chars(s) ==
  CASE s = ""   -> <<>>
    [] s = " "  -> <<" ">>
    [] s = " a" -> <<" ", "a">>
    [] s = "a"  -> <<"a">>
    [] s = "d"  -> <<"d">>
    [] s = "1"  -> <<"1">>
    [] s = "--filter" -> <<"-", "-", "f", "i", "l", "t", "e", "r">>
    [] s = "completed" -> <<"c", "o", "m", "p", "l", "e", "t", "e", "d">>

Whitespace == {" "}

RECURSIVE LStrip(_)
LStrip(cs) ==
  IF Len(cs) > 0 /\ Head(cs) \in Whitespace THEN LStrip(Tail(cs)) ELSE cs

RECURSIVE RStrip(_)
RStrip(cs) ==
  IF Len(cs) > 0 /\ cs[Len(cs)] \in Whitespace
  THEN RStrip(SubSeq(cs, 1, Len(cs) - 1))
  ELSE cs

\* str.strip(): the characters left once leading and trailing whitespace is removed.
strip(s) == RStrip(LStrip(Chars(s)))

\* Python's truth value of a str.
Truthy(cs) == Len(cs) > 0

\* ------------------------------------------------------------------ Task

\* models.Task as TaskStore.add constructs it: completed and completed_at
\* take the dataclass defaults.
Task(id, title, description, created_at) ==
  [id |-> id, title |-> title, description |-> description,
   completed |-> FALSE, created_at |-> created_at, completed_at |-> None]

Ids == 1..(MaxAdds + 1)

Times == 0..MaxTime

\* ------------------------------------------------------------- TaskStore

\* The store object: its _tasks list and its _next_id counter.
Store == [tasks |-> tasks, next_id |-> next_id]

\* What a call leaves behind: the store, the exception raised ("none" when
\* the call returns) and the returned value.
Outcome(ts, nid, exc, val) ==
  [tasks |-> ts, next_id |-> nid, exc |-> exc, val |-> val]

\* add with the id taken from the length of the list.
add_IdFromLength(S, title, description, t) ==
  IF ~Truthy(Chars(title)) \/ ~Truthy(strip(title))
  THEN Outcome(S.tasks, S.next_id, "ValueError", None)
  ELSE LET task == Task(Len(S.tasks) + 1, title, description, t)
       IN Outcome(Append(S.tasks, task), S.next_id + 1, "none", Some(task))

\* add that tests the title for emptiness only.
add_NoStrip(S, title, description, t) ==
  IF ~Truthy(Chars(title))
  THEN Outcome(S.tasks, S.next_id, "ValueError", None)
  ELSE LET task == Task(S.next_id, title, description, t)
       IN Outcome(Append(S.tasks, task), S.next_id + 1, "none", Some(task))

\* add that stores the title without its leading whitespace.
add_Trimmed(S, title, description, t) ==
  IF ~Truthy(Chars(title)) \/ ~Truthy(strip(title))
  THEN Outcome(S.tasks, S.next_id, "ValueError", None)
  ELSE LET task == Task(S.next_id, IF title = " a" THEN "a" ELSE title,
                        description, t)
       IN Outcome(Append(S.tasks, task), S.next_id + 1, "none", Some(task))

\* add that puts the new task at the head of the list.
add_Prepend(S, title, description, t) ==
  IF ~Truthy(Chars(title)) \/ ~Truthy(strip(title))
  THEN Outcome(S.tasks, S.next_id, "ValueError", None)
  ELSE LET task == Task(S.next_id, title, description, t)
       IN Outcome(<<task>> \o S.tasks, S.next_id + 1, "none", Some(task))

\* TaskStore.add
add(S, title, description, t) ==
  IF ~Truthy(Chars(title)) \/ ~Truthy(strip(title))
  THEN Outcome(S.tasks, S.next_id, "ValueError", None)
  ELSE LET task == Task(S.next_id, title, description, t)
       IN Outcome(Append(S.tasks, task), S.next_id + 1, "none", Some(task))

\* The index of the first task of ts with this id, 0 when there is none.
IndexOf(ts, task_id) ==
  LET hits == {i \in 1..Len(ts) : ts[i].id = task_id}
  IN IF hits = {} THEN 0 ELSE CHOOSE i \in hits : \A j \in hits : i <= j

\* get that gives up when the first task is not the one asked for.
get_FirstOnly(S, task_id) ==
  Outcome(S.tasks, S.next_id, "none",
          IF Len(S.tasks) > 0 /\ S.tasks[1].id = task_id
          THEN Some(S.tasks[1]) ELSE None)

\* TaskStore.get
get(S, task_id) ==
  LET i == IndexOf(S.tasks, task_id)
  IN Outcome(S.tasks, S.next_id, "none",
             IF i = 0 THEN None ELSE Some(S.tasks[i]))

Filters == {"all", "pending", "completed", "bogus"}

IsPending(task) == ~task.completed

\* a completed test that lets every task through.
IsCompleted_Any(task) == TRUE

IsCompleted(task) == task.completed

\* list that treats an unknown filter as "all".
list_Lenient(S, filter_by) ==
  IF filter_by = "pending"
  THEN Outcome(S.tasks, S.next_id, "none", SelectSeq(S.tasks, IsPending))
  ELSE IF filter_by = "completed"
  THEN Outcome(S.tasks, S.next_id, "none", SelectSeq(S.tasks, IsCompleted))
  ELSE Outcome(S.tasks, S.next_id, "none", S.tasks)

\* TaskStore.list
list(S, filter_by) ==
  IF filter_by \notin {"all", "pending", "completed"}
  THEN Outcome(S.tasks, S.next_id, "ValueError", <<>>)
  ELSE IF filter_by = "all"
  THEN Outcome(S.tasks, S.next_id, "none", S.tasks)
  ELSE IF filter_by = "pending"
  THEN Outcome(S.tasks, S.next_id, "none", SelectSeq(S.tasks, IsPending))
  ELSE Outcome(S.tasks, S.next_id, "none", SelectSeq(S.tasks, IsCompleted))

\* The keyword arguments of update: one Optional slot per key.
\* priority stands for a key that is no attribute of Task.
NoChanges ==
  [title |-> None, description |-> None, completed |-> None,
   id |-> None, created_at |-> None, completed_at |-> None,
   priority |-> None]

\* The "completed" branch with a reopened task keeping its completed_at.
SetCompleted_KeepStamp(task, changes, t) ==
  IF IsSome(changes.completed)
  THEN LET new_completed == Val(changes.completed)
       IN IF new_completed /\ ~task.completed
          THEN [task EXCEPT !.completed = TRUE, !.completed_at = Some(t)]
          ELSE [task EXCEPT !.completed = new_completed]
  ELSE task

\* The "completed" branch stamping completed_at on every completed=True.
SetCompleted_Restamp(task, changes, t) ==
  IF IsSome(changes.completed)
  THEN LET new_completed == Val(changes.completed)
       IN IF new_completed
          THEN [task EXCEPT !.completed = TRUE, !.completed_at = Some(t)]
          ELSE [task EXCEPT !.completed = FALSE, !.completed_at = None]
  ELSE task

\* The "completed" branch stamping completed_at with the clock's first
\* value instead of reading the clock.
SetCompleted_StaleStamp(task, changes, t) ==
  IF IsSome(changes.completed)
  THEN LET new_completed == Val(changes.completed)
       IN IF new_completed /\ ~task.completed
          THEN [task EXCEPT !.completed = TRUE, !.completed_at = Some(0)]
          ELSE IF ~new_completed /\ task.completed
          THEN [task EXCEPT !.completed = FALSE, !.completed_at = None]
          ELSE [task EXCEPT !.completed = new_completed]
  ELSE task

\* The "completed" branch of TaskStore.update.
SetCompleted(task, changes, t) ==
  IF IsSome(changes.completed)
  THEN LET new_completed == Val(changes.completed)
       IN IF new_completed /\ ~task.completed
          THEN [task EXCEPT !.completed = TRUE, !.completed_at = Some(t)]
          ELSE IF ~new_completed /\ task.completed
          THEN [task EXCEPT !.completed = FALSE, !.completed_at = None]
          ELSE [task EXCEPT !.completed = new_completed]
  ELSE task

\* The setattr loop resetting a description that is not in changes.
SetOthers_ClearsDescription(task, changes) ==
  [task EXCEPT
     !.title = IF IsSome(changes.title) THEN Val(changes.title) ELSE @,
     !.description =
        IF IsSome(changes.description) THEN Val(changes.description) ELSE "",
     !.id = IF IsSome(changes.id) THEN Val(changes.id) ELSE @,
     !.created_at =
        IF IsSome(changes.created_at) THEN Val(changes.created_at) ELSE @,
     !.completed_at =
        IF IsSome(changes.completed_at) THEN Val(changes.completed_at) ELSE @]

\* The setattr loop of TaskStore.update over the keys other than
\* "completed": every key that is an attribute of Task is assigned, and a
\* key that is none (priority) is skipped by hasattr.
SetOthers(task, changes) ==
  [task EXCEPT
     !.title = IF IsSome(changes.title) THEN Val(changes.title) ELSE @,
     !.description =
        IF IsSome(changes.description) THEN Val(changes.description) ELSE @,
     !.id = IF IsSome(changes.id) THEN Val(changes.id) ELSE @,
     !.created_at =
        IF IsSome(changes.created_at) THEN Val(changes.created_at) ELSE @,
     !.completed_at =
        IF IsSome(changes.completed_at) THEN Val(changes.completed_at) ELSE @]

\* update that returns None for an id it does not find.
update_Silent(S, task_id, changes, t) ==
  LET found == get(S, task_id).val
      i == IndexOf(S.tasks, task_id)
  IN IF IsNone(found)
     THEN Outcome(S.tasks, S.next_id, "none", None)
     ELSE LET task == SetOthers(SetCompleted(Val(found), changes, t), changes)
          IN Outcome([S.tasks EXCEPT ![i] = task], S.next_id, "none", Some(task))

\* update that tests a title as add does.
update_Validating(S, task_id, changes, t) ==
  LET found == get(S, task_id).val
      i == IndexOf(S.tasks, task_id)
  IN IF IsNone(found)
     THEN Outcome(S.tasks, S.next_id, "KeyError", None)
     ELSE IF IsSome(changes.title) /\ Val(changes.title) \in {"", " "}
     THEN Outcome(S.tasks, S.next_id, "ValueError", None)
     ELSE LET task == SetOthers(SetCompleted(Val(found), changes, t), changes)
          IN Outcome([S.tasks EXCEPT ![i] = task], S.next_id, "none", Some(task))

\* TaskStore.update: the task that get returns is the object in the list,
\* at the index where get found it, and is changed in place.
update(S, task_id, changes, t) ==
  LET found == get(S, task_id).val
      i == IndexOf(S.tasks, task_id)
  IN IF IsNone(found)
     THEN Outcome(S.tasks, S.next_id, "KeyError", None)
     ELSE LET task == SetOthers(SetCompleted(Val(found), changes, t), changes)
          IN Outcome([S.tasks EXCEPT ![i] = task], S.next_id, "none", Some(task))

\* pop that removes the last element whatever the index.
Pop_Last(ts, i) == SubSeq(ts, 1, Len(ts) - 1)

\* list.pop(i)
Pop(ts, i) == SubSeq(ts, 1, i - 1) \o SubSeq(ts, i + 1, Len(ts))

\* delete that reports True without removing the task.
delete_NoPop(S, task_id) ==
  LET i == IndexOf(S.tasks, task_id)
  IN IF i = 0
     THEN Outcome(S.tasks, S.next_id, "none", Some(FALSE))
     ELSE Outcome(S.tasks, S.next_id, "none", Some(TRUE))

\* TaskStore.delete
delete(S, task_id) ==
  LET i == IndexOf(S.tasks, task_id)
  IN IF i = 0
     THEN Outcome(S.tasks, S.next_id, "none", Some(FALSE))
     ELSE Outcome(Pop(S.tasks, i), S.next_id, "none", Some(TRUE))

\* --------------------------------------------------------------- actions

\* The call that was made last: its name and the exception it raised
\* ("none" when it returned).
Call(op, out) ==
  [op |-> op, exc |-> out.exc,
   id |-> IF op = "add" /\ IsSome(out.val) THEN Val(out.val).id ELSE 0]

\* The threads that run the handlers of the REST front end.
Threads == {1, 2}

\* A thread that runs no store method: pc is the place in the method, task
\* the Task a running add built, ref the index in _tasks of the Task a
\* running update holds or a running delete found, changes the keyword
\* arguments of the update, before the task as the update found it, got
\* what a get or list returned, and task_id the argument of a running
\* delete.
Idle ==
  [pc |-> "idle", task |-> None, ref |-> 0, changes |-> NoChanges,
   before |-> None, got |-> {}, task_id |-> 0]

\* No handler of the REST front end has run.
NoResponse ==
  [handler |-> "none", query |-> None, status |-> 0, body |-> <<>>]

\* A message of the console front end: the mark that its text starts
\* with ("check" for the check mark, "cross" for the ballot cross, "info"
\* for the information sign, "text" for none of them), what it says and
\* the task id it names, 0 when it names none.
Message(mark, text, id) == [mark |-> mark, text |-> text, id |-> id]

NoMessage == Message("text", "", 0)

\* The console before any command: the loop prompts, nothing was printed.
NoConsole == [running |-> TRUE, printed |-> NoMessage]

NoCall == [op |-> "init", exc |-> "none", id |-> 0]

\* TaskStore.__init__
Init ==
  /\ tasks = <<>>
  /\ next_id = 1
  /\ now = 0
  /\ call = NoCall
  /\ added = 0
  /\ deleted = {}
  /\ thr = [t \in Threads |-> Idle]
  /\ resp = NoResponse
  /\ console = NoConsole

\* The clock advances.
Tick ==
  /\ now < MaxTime
  /\ now' = now + 1
  /\ UNCHANGED <<tasks, next_id, call, added, deleted, thr, resp, console>>

Commit(out) ==
  /\ tasks' = out.tasks
  /\ next_id' = out.next_id
  /\ UNCHANGED <<now, thr, resp, console>>

Add ==
  \E title \in Titles, description \in AddDescriptions :
    LET out == add(Store, title, description, now)
    IN /\ next_id <= MaxAdds
       /\ Commit(out)
       /\ call' = Call("add", out)
       /\ added' = IF out.exc = "none" THEN added + 1 ELSE added
       /\ UNCHANGED deleted

Get ==
  \E task_id \in Ids :
    LET out == get(Store, task_id)
    IN /\ Commit(out)
       /\ call' = Call("get", out)
       /\ UNCHANGED <<added, deleted>>

List ==
  \E filter_by \in Filters :
    LET out == list(Store, filter_by)
    IN /\ Commit(out)
       /\ call' = Call("list", out)
       /\ UNCHANGED <<added, deleted>>

\* The keyword sets of the documented interface: any subset of title,
\* description and completed.
Changes ==
  {[NoChanges EXCEPT !.title = ti, !.description = de, !.completed = co] :
     ti \in Opt(UpdateTitles), de \in Opt(UpdateDescriptions),
     co \in Opt(BOOLEAN)}

Update ==
  \E task_id \in Ids, changes \in Changes :
    LET out == update(Store, task_id, changes, now)
    IN /\ Commit(out)
       /\ call' = Call("update", out)
       /\ UNCHANGED <<added, deleted>>

Delete ==
  \E task_id \in Ids :
    LET out == delete(Store, task_id)
    IN /\ Commit(out)
       /\ call' = Call("delete", out)
       /\ deleted' = IF out.val = Some(TRUE)
                     THEN deleted \cup {task_id} ELSE deleted
       /\ UNCHANGED added

Next == Tick \/ Add \/ Get \/ List \/ Update \/ Delete

Spec == Init /\ [][Next]_vars

\* Keyword sets that name id or created_at, which **changes accepts like
\* any other key.
KeyChanges ==
  {[NoChanges EXCEPT !.id = Some(i)] : i \in Ids}
    \cup {[NoChanges EXCEPT !.created_at = Some(c)] : c \in Times}

\* update called with a keyword set of KeyChanges.
UpdateAnyKey ==
  \E task_id \in Ids, changes \in KeyChanges :
    LET out == update(Store, task_id, changes, now)
    IN /\ Commit(out)
       /\ call' = Call("update", out)
       /\ UNCHANGED <<added, deleted>>

NextAnyKey == Next \/ UpdateAnyKey

\* The store called with every keyword that update accepts.
SpecAnyKey == Init /\ [][NextAnyKey]_vars

\* ------------------------------------------------- what the claims speak of

\* A string without any non-whitespace character (the empty string too).
IsBlank(s) == \A k \in 1..Len(Chars(s)) : Chars(s)[k] \in Whitespace

\* Every keyword set drawn from title, description and completed.
DocChanges ==
  {[NoChanges EXCEPT !.title = ti, !.description = de, !.completed = co] :
     ti \in Opt(Titles), de \in Opt(Descriptions), co \in Opt(BOOLEAN)}

\* Keyword sets that name another key: one of the remaining attributes of
\* Task, or a key that is no attribute.
OtherChanges ==
  {[NoChanges EXCEPT !.id = Some(i)] : i \in Ids}
    \cup {[NoChanges EXCEPT !.created_at = Some(c)] : c \in Times}
    \cup {[NoChanges EXCEPT !.completed_at = Some(ca)] : ca \in Opt(Times)}
    \cup {[NoChanges EXCEPT !.priority = Some(1)]}

AnyChanges == DocChanges \cup OtherChanges

\* The ids of the stored tasks.
StoredIds == {tasks[i].id : i \in 1..Len(tasks)}

\* ------------------------------------------------------------------- C1

\* C1: the k-th add that returns, returns the task with id k, whatever
\* update, delete, get and list calls came in between.
C1_KthAddReturnsIdK ==
  (call.op = "add" /\ call.exc = "none") => call.id = added

\* The second add returned id 2 after the first task had been deleted.
C1_Witness ==
  /\ call.op = "add" /\ call.exc = "none"
  /\ added = 2 /\ call.id = 2
  /\ Len(tasks) = 1

\* ------------------------------------------------------------------- C2

C3_CompletedAtIffCompleted ==
  \A i \in 1..Len(tasks) : IsSome(tasks[i].completed_at) <=> tasks[i].completed

\* An update left one task completed and another, whose title an update
\* had rewritten, pending.
C3_Witness ==
  /\ call.op = "update" /\ call.exc = "none"
  /\ \E i, j \in 1..Len(tasks) :
       /\ tasks[i].completed /\ IsSome(tasks[i].completed_at)
       /\ ~tasks[j].completed /\ IsNone(tasks[j].completed_at)
       /\ tasks[j].title = ""

\* ------------------------------------------------------------------- C4

\* C4: the title of every stored task holds a non-whitespace character.
C4_TitlesNotBlank ==
  \A i \in 1..Len(tasks) : ~IsBlank(tasks[i].title)

\* ------------------------------------------------------------------- C5

\* C5: a call of update changes neither the id nor the created_at of any
\* stored task, whatever keyword set it is given.
C5_UpdateKeepsIdAndCreatedAt ==
  [][call'.op = "update" =>
       /\ Len(tasks') = Len(tasks)
       /\ \A i \in 1..Len(tasks) :
            /\ tasks'[i].id = tasks[i].id
            /\ tasks'[i].created_at = tasks[i].created_at]_vars

\* ------------------------------------------------------------------- C6

\* C6: add with an empty or whitespace-only title raises ValueError and
\* leaves the tasks and the id counter as they were, so that the add that
\* follows returns what it would have returned without the failed call.
C6_BlankAddFails ==
  \A title \in Titles, description \in Descriptions :
    IsBlank(title) =>
      LET out == add(Store, title, description, now)
          after == [tasks |-> out.tasks, next_id |-> out.next_id]
      IN /\ out.exc = "ValueError"
         /\ out.tasks = tasks /\ out.next_id = next_id
         /\ \A t2 \in Titles, d2 \in Descriptions :
              add(after, t2, d2, now).val = add(Store, t2, d2, now).val

\* An add has failed on a store that holds a task.
C6_Witness ==
  /\ call.op = "add" /\ call.exc = "ValueError"
  /\ Len(tasks) = 1 /\ next_id = 2 /\ added = 1

\* ------------------------------------------------------------------- C7

\* C7: add with a title that is not blank appends one record at the end,
\* with the title and the description as given, completed false,
\* completed_at absent and created_at the current time; it returns that
\* record and leaves the records that were there unchanged.
C7_AddAppends ==
  \A title \in Titles, description \in Descriptions :
    ~IsBlank(title) =>
      LET out == add(Store, title, description, now)
          n == Len(tasks)
      IN /\ out.exc = "none"
         /\ Len(out.tasks) = n + 1
         /\ SubSeq(out.tasks, 1, n) = tasks
         /\ out.tasks[n + 1].title = title
         /\ out.tasks[n + 1].description = description
         /\ out.tasks[n + 1].completed = FALSE
         /\ out.tasks[n + 1].completed_at = None
         /\ out.tasks[n + 1].created_at = now
         /\ out.val = Some(out.tasks[n + 1])

\* An add appended a second record, with a padded title, behind a record
\* that an update had completed.
C7_Witness ==
  /\ call.op = "add" /\ call.exc = "none"
  /\ Len(tasks) = 2
  /\ tasks[1].completed
  /\ tasks[2].title = " a" /\ tasks[2].description = "d"
  /\ tasks[2].created_at = now /\ now > 0

\* ------------------------------------------------------------------- C8

\* C8: update(id, completed=c) on an existing task: pending and c true
\* gives completed with completed_at the current time; completed and c
\* false gives pending with completed_at absent; c equal to the current
\* value leaves completed and completed_at as they were.
C8_CompletedTransitions ==
  \A i \in 1..Len(tasks), c \in BOOLEAN :
    LET old == tasks[i]
        changes == [NoChanges EXCEPT !.completed = Some(c)]
        out == update(Store, old.id, changes, now)
        new == out.tasks[i]
    IN /\ out.exc = "none"
       /\ (~old.completed /\ c) =>
            (new.completed /\ new.completed_at = Some(now))
       /\ (old.completed /\ ~c) =>
            (~new.completed /\ new.completed_at = None)
       /\ (old.completed = c) =>
            (new.completed = c /\ new.completed_at = old.completed_at)

\* After an update the store holds a task completed before the current
\* time: completing it again must keep the older completed_at.
C8_Witness ==
  /\ call.op = "update" /\ call.exc = "none"
  /\ \E i \in 1..Len(tasks) :
       /\ tasks[i].completed
       /\ tasks[i].completed_at = Some(0)
       /\ now = 1

\* ------------------------------------------------------------------- C9

\* C9: update on an id that no stored task has raises KeyError and leaves
\* every task and the id counter as they were, whatever changes it names.
C9_UpdateMissingId ==
  \A task_id \in Ids \ StoredIds, changes \in AnyChanges :
    LET out == update(Store, task_id, changes, now)
    IN /\ out.exc = "KeyError"
       /\ out.tasks = tasks
       /\ out.next_id = next_id

\* An update raised KeyError on a store that holds tasks.
C9_Witness ==
  /\ call.op = "update" /\ call.exc = "KeyError"
  /\ Len(tasks) = 2

\* ------------------------------------------------------------------ C10

\* C10: update(id, changes), with changes drawn from title, description
\* and completed, changes only the fields that changes names: an absent
\* title, description or completed keeps its value, completed_at changes
\* only when completed is present, every other task keeps all its fields,
\* and the order of the tasks and the id counter stay as they were.
C10_UpdateFrame ==
  \A i \in 1..Len(tasks), changes \in DocChanges :
    LET old == tasks[i]
        out == update(Store, old.id, changes, now)
        new == out.tasks[i]
    IN /\ Len(out.tasks) = Len(tasks)
       /\ \A j \in 1..Len(tasks) : j # i => out.tasks[j] = tasks[j]
       /\ out.next_id = next_id
       /\ new.id = old.id /\ new.created_at = old.created_at
       /\ IsNone(changes.title) => new.title = old.title
       /\ IsNone(changes.description) => new.description = old.description
       /\ IsNone(changes.completed) =>
            (new.completed = old.completed
             /\ new.completed_at = old.completed_at)

\* An update rewrote the title of the second of two tasks, which keeps its
\* description, its completion and its timestamps, while the first keeps
\* its own fields.
C10_Witness ==
  /\ call.op = "update" /\ call.exc = "none"
  /\ Len(tasks) = 2
  /\ tasks[2].title = "" /\ tasks[2].description = "d"
  /\ tasks[2].completed /\ tasks[2].completed_at = Some(0)
  /\ tasks[2].created_at = 0 /\ now = 1
  /\ tasks[1].title = " a" /\ ~tasks[1].completed

\* The ids of the tasks of a sequence.
IdsOf(ts) == {ts[i].id : i \in 1..Len(ts)}

ValidFilters == {"all", "pending", "completed"}

\* ------------------------------------------------------------------ C11

C12_DeleteFrame ==
  \A task_id \in Ids :
    LET out == delete(Store, task_id)
        i == IndexOf(tasks, task_id)
    IN /\ out.exc = "none"
       /\ out.next_id = next_id
       /\ IF task_id \in StoredIds
          THEN /\ Len(out.tasks) = Len(tasks) - 1
               /\ task_id \notin IdsOf(out.tasks)
               /\ \A k \in 1..Len(out.tasks) :
                    out.tasks[k] = IF k < i THEN tasks[k] ELSE tasks[k + 1]
          ELSE out.tasks = tasks

\* A delete removed task 1 and left the completed task 2, description
\* included, with the counter past both.
C12_Witness ==
  /\ call.op = "delete"
  /\ deleted = {1}
  /\ Len(tasks) = 1 /\ tasks[1].id = 2 /\ tasks[1].completed
  /\ tasks[1].description = "d"
  /\ next_id = 3

\* ------------------------------------------------------------------ C13

StrictlyIncreasing(ts) ==
  \A i, j \in 1..Len(ts) : i < j => ts[i].id < ts[j].id

BadFilters == {"bogus", "ALL", "", " all", "done"}

\* C15: list with a filter other than exactly "all", "pending" or
\* "completed" raises ValueError and leaves the tasks and the id counter
\* as they were.
C15_BadFilterFails ==
  \A f \in BadFilters \cup (Filters \ ValidFilters) :
    LET out == list(Store, f)
    IN /\ out.exc = "ValueError"
       /\ out.tasks = tasks
       /\ out.next_id = next_id

\* A list call raised ValueError with two tasks stored.
C15_Witness ==
  /\ call.op = "list" /\ call.exc = "ValueError"
  /\ Len(tasks) = 2 /\ next_id = 3

\* ------------------------------------------------------------ C16, C17
\* What a caller holds after a call.  A Python list or Task is an object:
\* a write through a reference the caller holds reaches the store when
\* the object is the one the store holds.

\* list that hands out the store's own list for "all".
ListObject_Own(filter_by) == IF filter_by = "all" THEN "own" ELSE "new"

\* The list object that list returns: "own" is self._tasks itself, "new"
\* a list built for the caller (self._tasks.copy() and the two
\* comprehensions).
ListObject(filter_by) == "new"

\* The Task objects that add, get and list return: "own" is the object
\* in self._tasks.  add returns the object it appended, get the element it
\* found, and copy() and the comprehensions hold the same elements.
TaskObject(op) == "own"

Reverse(ts) == [k \in 1..Len(ts) |-> ts[Len(ts) + 1 - k]]

\* A Task the caller built itself: its id is None, here 0.
CallerTask == Task(0, "a", "", 0)

ListWrites == {"pop", "append", "reverse"}

\* lst.pop(0) (when there is an element), lst.append(Task("a")),
\* lst.reverse()
WriteList(lst, w) ==
  CASE w = "pop" -> IF lst = <<>> THEN lst ELSE Tail(lst)
    [] w = "append" -> Append(lst, CallerTask)
    [] w = "reverse" -> Reverse(lst)

TaskWrites == {"title", "completed"}

\* task.title = "" and task.completed = not task.completed
WriteTask(task, w) ==
  CASE w = "title" -> [task EXCEPT !.title = ""]
    [] w = "completed" -> [task EXCEPT !.completed = ~task.completed]

CallerCall(op) == [op |-> op, exc |-> "none", id |-> 0]

\* lst = store.list(filter_by), then a write to lst.
ListThenWrite ==
  \E f \in ValidFilters, w \in ListWrites :
    LET out == list(Store, f)
        lst == WriteList(out.val, w)
    IN /\ tasks' = IF ListObject(f) = "own" THEN lst ELSE out.tasks
       /\ next_id' = out.next_id
       /\ call' = CallerCall("list, write list")
       /\ UNCHANGED <<now, added, deleted, thr, resp, console>>

\* The tasks after a write to the Task object the caller was given:
\* the store's element changes when the object is the store's.
AfterTaskWrite(ts, op, task_id, w) ==
  LET i == IndexOf(ts, task_id)
  IN IF TaskObject(op) = "own" /\ i # 0
     THEN [ts EXCEPT ![i] = WriteTask(ts[i], w)]
     ELSE ts

\* task = store.get(task_id), then a write to task when one was found.
GetThenWrite ==
  \E task_id \in Ids, w \in TaskWrites :
    LET out == get(Store, task_id)
    IN /\ IsSome(out.val)
       /\ tasks' = AfterTaskWrite(out.tasks, "get", task_id, w)
       /\ next_id' = out.next_id
       /\ call' = CallerCall("get, write task")
       /\ UNCHANGED <<now, added, deleted, thr, resp, console>>

\* task = store.list(filter_by)[0], then a write to task.
ListThenWriteTask ==
  \E f \in ValidFilters, w \in TaskWrites :
    LET out == list(Store, f)
    IN /\ out.val # <<>>
       /\ tasks' = AfterTaskWrite(out.tasks, "list", out.val[1].id, w)
       /\ next_id' = out.next_id
       /\ call' = CallerCall("list, write task")
       /\ UNCHANGED <<now, added, deleted, thr, resp, console>>

\* task = store.add(title, description), then a write to task.
AddThenWrite ==
  \E title \in Titles, description \in AddDescriptions, w \in TaskWrites :
    LET out == add(Store, title, description, now)
    IN /\ next_id <= MaxAdds
       /\ out.exc = "none"
       /\ tasks' = AfterTaskWrite(out.tasks, "add", Val(out.val).id, w)
       /\ next_id' = out.next_id
       /\ call' = CallerCall("add, write task")
       /\ added' = added + 1
       /\ UNCHANGED <<now, deleted, thr, resp, console>>

\* The store calls that change the tasks, and the caller's writes.
NextAlias ==
  \/ Add \/ Update \/ Delete
  \/ ListThenWrite \/ GetThenWrite \/ ListThenWriteTask \/ AddThenWrite

SpecAlias == Init /\ [][NextAlias]_vars

\* The store after the step.
StoreNext == [tasks |-> tasks', next_id |-> next_id']

C17_TaskIsSnapshot ==
  [][/\ call'.op \in {"get, write task", "list, write task"} =>
          tasks' = tasks
     /\ call'.op = "add, write task" =>
          \E title \in Titles, description \in AddDescriptions :
            tasks' = add(Store, title, description, now).tasks
    ]_vars

\* ------------------------------------------------------------ C18, C19
\* The REST handlers are plain functions, which the framework runs in a
\* pool of threads over the one module-level store; TaskStore takes no
\* lock.  A thread switch can fall between any two statements of a store
\* method.

\* The arguments of the concurrent update calls.
ConcChanges ==
  {[NoChanges EXCEPT !.title = Some(""), !.completed = Some(TRUE)],
   [NoChanges EXCEPT !.description = Some(""), !.completed = Some(FALSE)]}

\* add, first step: the title test, then Task(id=self._next_id, ...)
\* reads the counter.
AddRead(t) ==
  \E title \in Titles, description \in AddDescriptions :
    /\ thr[t].pc = "idle"
    /\ next_id <= MaxAdds
    /\ Truthy(Chars(title)) /\ Truthy(strip(title))
    /\ thr' = [thr EXCEPT ![t] =
                [Idle EXCEPT !.pc = "add_append",
                             !.task = Some(Task(next_id, title, description, now))]]
    /\ UNCHANGED <<tasks, next_id, now, call, added, deleted, resp, console>>

\* add, second step: self._tasks.append(task)
AddAppend(t) ==
  /\ thr[t].pc = "add_append"
  /\ tasks' = Append(tasks, Val(thr[t].task))
  /\ thr' = [thr EXCEPT ![t].pc = "add_incr"]
  /\ UNCHANGED <<next_id, now, call, added, deleted, resp, console>>

\* add, third step: self._next_id += 1, and the return.
AddIncr(t) ==
  /\ thr[t].pc = "add_incr"
  /\ next_id' = next_id + 1
  /\ thr' = [thr EXCEPT ![t] = Idle]
  /\ call' = [op |-> "add", exc |-> "none", id |-> Val(thr[t].task).id]
  /\ added' = added + 1
  /\ UNCHANGED <<tasks, now, deleted, resp, console>>

\* An update is running.
InUpdate(t) ==
  thr[t].pc \in {"upd_completed", "upd_completed_at", "upd_title",
                 "upd_description"}

\* update, first step: task = self.get(task_id); the KeyError ends the
\* call.  One update runs at a time here: what a reader may see of it is
\* then the task before it or the task after it.
UpdGet(t) ==
  \E task_id \in Ids, changes \in ConcChanges :
    LET i == IndexOf(tasks, task_id)
    IN /\ thr[t].pc = "idle"
       /\ \A u \in Threads : ~InUpdate(u)
       /\ i # 0
       /\ thr' = [thr EXCEPT ![t] =
                   [Idle EXCEPT !.pc = "upd_completed", !.ref = i,
                                !.changes = changes,
                                !.before = Some(tasks[i])]]
       /\ UNCHANGED <<tasks, next_id, now, call, added, deleted, resp, console>>

\* update, second step: the assignment to task.completed in the branch
\* that the completed key selects.
UpdCompleted(t) ==
  LET i == thr[t].ref
      changes == thr[t].changes
  IN /\ thr[t].pc = "upd_completed"
     /\ IF IsSome(changes.completed)
        THEN /\ tasks' = [tasks EXCEPT ![i].completed = Val(changes.completed)]
             /\ thr' = [thr EXCEPT ![t].pc =
                         IF Val(changes.completed) # tasks[i].completed
                         THEN "upd_completed_at" ELSE "upd_title"]
        ELSE /\ thr' = [thr EXCEPT ![t].pc = "upd_title"]
             /\ UNCHANGED tasks
     /\ UNCHANGED <<next_id, now, call, added, deleted, resp, console>>

\* update, third step: task.completed_at = datetime.now() when marking
\* complete, task.completed_at = None when marking pending.
UpdCompletedAt(t) ==
  LET i == thr[t].ref
  IN /\ thr[t].pc = "upd_completed_at"
     /\ tasks' = [tasks EXCEPT ![i].completed_at =
                    IF Val(thr[t].changes.completed) THEN Some(now) ELSE None]
     /\ thr' = [thr EXCEPT ![t].pc = "upd_title"]
     /\ UNCHANGED <<next_id, now, call, added, deleted, resp, console>>

\* update, the setattr loop: the title key.
UpdTitle(t) ==
  LET i == thr[t].ref
      changes == thr[t].changes
  IN /\ thr[t].pc = "upd_title"
     /\ tasks' = IF IsSome(changes.title)
                 THEN [tasks EXCEPT ![i].title = Val(changes.title)]
                 ELSE tasks
     /\ thr' = [thr EXCEPT ![t].pc = "upd_description"]
     /\ UNCHANGED <<next_id, now, call, added, deleted, resp, console>>

\* update, the setattr loop: the description key, and the return.
UpdDescription(t) ==
  LET i == thr[t].ref
      changes == thr[t].changes
  IN /\ thr[t].pc = "upd_description"
     /\ tasks' = IF IsSome(changes.description)
                 THEN [tasks EXCEPT ![i].description = Val(changes.description)]
                 ELSE tasks
     /\ thr' = [thr EXCEPT ![t] = Idle]
     /\ call' = [op |-> "update", exc |-> "none", id |-> 0]
     /\ UNCHANGED <<next_id, now, added, deleted, resp, console>>

\* What a reader is given: the Tasks, each with its place in _tasks.
Seen(ts, filter_by) ==
  LET keep == CASE filter_by = "all" -> 1..Len(ts)
                [] filter_by = "pending" ->
                     {j \in 1..Len(ts) : IsPending(ts[j])}
                [] filter_by = "completed" ->
                     {j \in 1..Len(ts) : IsCompleted(ts[j])}
  IN {[ref |-> k, task |-> ts[k]] : k \in keep}

\* get(task_id) run by a thread, in one step.
ReadGet(t) ==
  \E task_id \in Ids :
    LET i == IndexOf(tasks, task_id)
    IN /\ thr[t].pc = "idle"
       /\ thr' = [thr EXCEPT ![t] =
                   [Idle EXCEPT !.pc = "read",
                                !.got = IF i = 0 THEN {}
                                        ELSE {[ref |-> i, task |-> tasks[i]]}]]
       /\ UNCHANGED <<tasks, next_id, now, call, added, deleted, resp, console>>

\* list(filter_by) run by a thread, in one step.
ReadList(t) ==
  \E f \in ValidFilters :
    /\ thr[t].pc = "idle"
    /\ thr' = [thr EXCEPT ![t] =
                [Idle EXCEPT !.pc = "read", !.got = Seen(tasks, f)]]
    /\ UNCHANGED <<tasks, next_id, now, call, added, deleted, resp, console>>

\* The reading thread returns.
ReadDone(t) ==
  /\ thr[t].pc = "read"
  /\ thr' = [thr EXCEPT ![t] = Idle]
  /\ UNCHANGED <<tasks, next_id, now, call, added, deleted, resp, console>>

NextConc ==
  \E t \in Threads :
    \/ AddRead(t) \/ AddAppend(t) \/ AddIncr(t)
    \/ UpdGet(t) \/ UpdCompleted(t) \/ UpdCompletedAt(t)
    \/ UpdTitle(t) \/ UpdDescription(t)
    \/ ReadGet(t) \/ ReadList(t) \/ ReadDone(t)

SpecConc == Init /\ [][NextConc]_vars

\* C18: with the steps of two add calls interleaved in any order, no two
\* stored tasks have the same id.
C18_ConcurrentAddsDistinctIds ==
  \A i, j \in 1..Len(tasks) : i # j => tasks[i].id # tasks[j].id

\* The task that the running update leaves when it runs alone.
AfterUpdate(t) ==
  SetOthers(SetCompleted(Val(thr[t].before), thr[t].changes, now),
            thr[t].changes)

\* C19: what a get or list returns while an update runs has, for every
\* task, completed true exactly when completed_at is present, and shows
\* the task that is being updated either as it was before the update or
\* as the whole update leaves it.
C19_NoPartialWriteSeen ==
  \A t \in Threads : \A g \in thr[t].got :
    /\ g.task.completed <=> IsSome(g.task.completed_at)
    /\ \A u \in Threads :
         (InUpdate(u) /\ thr[u].ref = g.ref) =>
           g.task \in {Val(thr[u].before), AfterUpdate(u)}

\* ------------------------------------------------------------------ C20
\* The REST front end: the list endpoint.

\* The parameters of TaskStore.list that a keyword argument can name.
ListParams == {"filter_by"}

\* store.list(**{keyword: value}): a keyword that names no parameter
\* raises TypeError before the body runs.
ListByKeyword(S, keyword, value) ==
  IF keyword \notin ListParams
  THEN Outcome(S.tasks, S.next_id, "TypeError", <<>>)
  ELSE list(S, value)

\* TaskResponse(id=task.id, title=task.title, ...)
TaskResponse(task) ==
  [id |-> task.id, title |-> task.title, description |-> task.description,
   completed |-> task.completed, created_at |-> task.created_at,
   completed_at |-> task.completed_at]

TaskResponses(ts) == [k \in 1..Len(ts) |-> TaskResponse(ts[k])]

\* The filter query parameter, None when the request has none.
Queries == Opt(Filters)

\* list_tasks(filter: str = "all"): store.list(filter=filter) inside
\* try / except ValueError; an exception that is not caught becomes the
\* framework's 500 response.
list_tasks(S, query) ==
  LET filter == IF IsNone(query) THEN "all" ELSE Val(query)
      out == ListByKeyword(S, "filter", filter)
  IN [tasks |-> out.tasks, next_id |-> out.next_id, exc |-> out.exc,
      status |-> CASE out.exc = "none" -> 200
                   [] out.exc = "ValueError" -> 400
                   [] OTHER -> 500,
      body |-> IF out.exc = "none" THEN TaskResponses(out.val) ELSE <<>>]

\* GET /tasks
ListTasks ==
  \E query \in Queries :
    LET r == list_tasks(Store, query)
    IN /\ tasks' = r.tasks
       /\ next_id' = r.next_id
       /\ resp' = [handler |-> "list_tasks", query |-> query,
                   status |-> r.status, body |-> r.body]
       /\ call' = [op |-> "list_tasks", exc |-> r.exc, id |-> 0]
       /\ UNCHANGED <<now, added, deleted, thr, console>>

\* The store calls that change the tasks, the clock, and the endpoint.
NextRest == Tick \/ Add \/ Update \/ Delete \/ ListTasks

SpecRest == Init /\ [][NextRest]_vars

\* C20: GET /tasks with filter all, pending or completed answers 200 with
\* the records that TaskStore.list returns for that filter on the shared
\* store, in the same order, and with no filter parameter it answers with
\* all records.
C20_RestListEqualsStoreList ==
  [][(call'.op = "list_tasks" /\ resp'.query \in Opt(ValidFilters)) =>
       LET f == IF IsNone(resp'.query) THEN "all" ELSE Val(resp'.query)
       IN /\ resp'.status = 200
          /\ resp'.body = TaskResponses(list(Store, f).val)
    ]_vars

\* ------------------------------------------------------------ C21, C22
\* The REST front end: the other endpoints.

\* What a handler leaves: the store, the HTTP status and the body.  A
\* body is the sequence of the TaskResponse records it holds.
Response(ts, nid, status, body) ==
  [tasks |-> ts, next_id |-> nid, status |-> status, body |-> body]

\* create_task that answers 200 with no task for a title add rejects.
create_task_Swallow(S, title, description, t) ==
  LET out == add(S, title, description, t)
  IN IF out.exc = "ValueError"
     THEN Response(out.tasks, out.next_id, 200, <<>>)
     ELSE Response(out.tasks, out.next_id, 200, <<TaskResponse(Val(out.val))>>)

\* create_task: store.add(task.title, task.description) inside
\* try / except ValueError -> 400.
create_task(S, title, description, t) ==
  LET out == add(S, title, description, t)
  IN IF out.exc = "ValueError"
     THEN Response(out.tasks, out.next_id, 400, <<>>)
     ELSE Response(out.tasks, out.next_id, 200, <<TaskResponse(Val(out.val))>>)

\* get_task: store.get(task_id); `if not task` -> 404.
get_task(S, task_id) ==
  LET out == get(S, task_id)
  IN IF IsNone(out.val)
     THEN Response(out.tasks, out.next_id, 404, <<>>)
     ELSE Response(out.tasks, out.next_id, 200, <<TaskResponse(Val(out.val))>>)

\* The bodies of PUT /tasks/{task_id}: a TaskUpdate, each field None when
\* the request leaves it out.
TaskUpdates ==
  [title : Opt(UpdateTitles), description : Opt(UpdateDescriptions),
   completed : Opt(BOOLEAN)]

\* The changes dict that update_task builds: one key for each field of
\* the TaskUpdate that is not None.
ChangesOf(task_update) ==
  [NoChanges EXCEPT !.title = task_update.title,
                    !.description = task_update.description,
                    !.completed = task_update.completed]

\* update_task: store.update(task_id, **changes) inside
\* try / except KeyError -> 404 / except ValueError -> 400.
update_task(S, task_id, task_update, t) ==
  LET out == update(S, task_id, ChangesOf(task_update), t)
  IN CASE out.exc = "KeyError" -> Response(out.tasks, out.next_id, 404, <<>>)
       [] out.exc = "ValueError" -> Response(out.tasks, out.next_id, 400, <<>>)
       [] out.exc = "none" ->
            Response(out.tasks, out.next_id, 200, <<TaskResponse(Val(out.val))>>)
       [] OTHER -> Response(out.tasks, out.next_id, 500, <<>>)

\* delete_task: store.delete(task_id); `if not result` -> 404.
delete_task(S, task_id) ==
  LET out == delete(S, task_id)
  IN IF out.val = Some(TRUE)
     THEN Response(out.tasks, out.next_id, 200, <<>>)
     ELSE Response(out.tasks, out.next_id, 404, <<>>)

\* The handler answers: the store and the response are what it left.
Answer(handler, r) ==
  /\ tasks' = r.tasks
  /\ next_id' = r.next_id
  /\ resp' = [handler |-> handler, query |-> None, status |-> r.status,
              body |-> r.body]
  /\ call' = [op |-> handler, exc |-> "none", id |-> 0]
  /\ UNCHANGED <<now, thr, console>>

\* POST /tasks
CreateTask ==
  \E title \in Titles, description \in AddDescriptions :
    LET r == create_task(Store, title, description, now)
    IN /\ next_id <= MaxAdds
       /\ Answer("create_task", r)
       /\ added' = IF r.status = 200 THEN added + 1 ELSE added
       /\ UNCHANGED deleted

\* GET /tasks/{task_id}
GetTask ==
  \E task_id \in Ids :
    /\ Answer("get_task", get_task(Store, task_id))
    /\ UNCHANGED <<added, deleted>>

\* PUT /tasks/{task_id}
UpdateTask ==
  \E task_id \in Ids, task_update \in TaskUpdates :
    /\ Answer("update_task", update_task(Store, task_id, task_update, now))
    /\ UNCHANGED <<added, deleted>>

\* DELETE /tasks/{task_id}
DeleteTask ==
  \E task_id \in Ids :
    LET r == delete_task(Store, task_id)
    IN /\ Answer("delete_task", r)
       /\ deleted' = IF r.status = 200 THEN deleted \cup {task_id} ELSE deleted
       /\ UNCHANGED added

\* The five endpoints on the shared store, and the clock.
NextEndpoints ==
  Tick \/ ListTasks \/ CreateTask \/ GetTask \/ UpdateTask \/ DeleteTask

SpecEndpoints == Init /\ [][NextEndpoints]_vars

\* C21: GET /tasks with a filter outside all, pending, completed answers
\* 400 and leaves the store as it was, and no handler answers with a
\* status other than 200, 400 or 404.
C21_BadFilterIs400 ==
  /\ (resp.handler = "list_tasks" /\ resp.query \notin Opt(ValidFilters)) =>
       resp.status = 400
  /\ \A query \in Queries :
       /\ list_tasks(Store, query).tasks = tasks
       /\ list_tasks(Store, query).next_id = next_id
  /\ resp.handler # "none" => resp.status \in {200, 400, 404}

\* C22: GET, PUT and DELETE /tasks/{id} for an id that no stored task has
\* answer 404, POST /tasks with an empty or whitespace-only title answers
\* 400, and each of them leaves the tasks and the id counter as they were.
C22_MissingIs404BlankIs400 ==
  /\ \A task_id \in Ids \ StoredIds :
       /\ get_task(Store, task_id) = Response(tasks, next_id, 404, <<>>)
       /\ delete_task(Store, task_id) = Response(tasks, next_id, 404, <<>>)
       /\ \A task_update \in TaskUpdates :
            update_task(Store, task_id, task_update, now)
              = Response(tasks, next_id, 404, <<>>)
  /\ \A title \in {ti \in Titles : IsBlank(ti)}, description \in Descriptions :
       create_task(Store, title, description, now)
         = Response(tasks, next_id, 400, <<>>)

\* A handler answered 404 for the id of a task that had been deleted,
\* with another task stored.
C22_Witness ==
  /\ resp.handler \in {"get_task", "update_task", "delete_task"}
  /\ resp.status = 404
  /\ deleted # {} /\ tasks # <<>>

\* ------------------------------------------------------------------ C23

ParseInt(s) ==
  CASE s = "1" -> Some(1)
    [] s = "2" -> Some(2)
    [] s = "3" -> Some(3)
    [] s = "7" -> Some(7)
    [] OTHER -> None

\* What a command handler leaves: the store and the message it returns.
Result(ts, nid, msg) == [tasks |-> ts, next_id |-> nid, msg |-> msg]

\* cmd_add
cmd_add(S, args, t) ==
  IF Len(args) = 0 \/ ~Truthy(strip(args[1]))
  THEN Result(S.tasks, S.next_id,
              Message("cross", "Task title cannot be empty", 0))
  ELSE LET title == args[1]
           description ==
             IF Len(args) > 1 /\ args[2] = "--description" /\ Len(args) > 2
             THEN args[3] ELSE ""
           out == add(S, title, description, t)
       IN IF out.exc = "ValueError"
          THEN Result(out.tasks, out.next_id,
                      Message("cross", "Task title cannot be empty", 0))
          ELSE Result(out.tasks, out.next_id,
                      Message("check", "Task added with ID",
                              Val(out.val).id))

\* The while loop of cmd_update that skips an invalid --status value
\* instead of returning.
ParseChanges_SkipBadStatus(args, i, changes) ==
  [ok |-> TRUE,
   changes |->
     [changes EXCEPT
        !.title = IF Len(args) >= 3 /\ args[2] = "--title"
                  THEN Some(args[3]) ELSE @]]

\* The while loop of cmd_update from position i on (args[i] here is
\* args[i - 1] there): the changes dict, or ok false where the loop
\* returns the invalid-status message.
RECURSIVE ParseChanges(_, _, _)
ParseChanges(args, i, changes) ==
  IF i > Len(args)
  THEN [ok |-> TRUE, changes |-> changes]
  ELSE IF args[i] = "--title" /\ i + 1 <= Len(args)
  THEN ParseChanges(args, i + 2, [changes EXCEPT !.title = Some(args[i + 1])])
  ELSE IF args[i] = "--description" /\ i + 1 <= Len(args)
  THEN ParseChanges(args, i + 2,
                    [changes EXCEPT !.description = Some(args[i + 1])])
  ELSE IF args[i] = "--status" /\ i + 1 <= Len(args)
  THEN IF args[i + 1] \notin {"pending", "completed"}
       THEN [ok |-> FALSE, changes |-> changes]
       ELSE ParseChanges(args, i + 2,
                         [changes EXCEPT
                            !.completed = Some(args[i + 1] = "completed")])
  ELSE ParseChanges(args, i + 1, changes)

\* cmd_update that leaves the --status flag out of the update call.
cmd_update_DropsStatus(S, args, t) ==
  IF Len(args) = 0 \/ IsNone(ParseInt(args[1]))
  THEN Result(S.tasks, S.next_id, Message("cross", "Invalid task ID", 0))
  ELSE LET task_id == Val(ParseInt(args[1]))
           parsed == ParseChanges(args, 2, NoChanges)
           out == update(S, task_id,
                         [parsed.changes EXCEPT !.completed = None], t)
       IN IF ~parsed.ok
          THEN Result(S.tasks, S.next_id, Message("cross", "Invalid status", 0))
          ELSE IF out.exc = "KeyError"
          THEN Result(out.tasks, out.next_id,
                      Message("cross", "Task not found", task_id))
          ELSE Result(out.tasks, out.next_id,
                      Message("check", "Task updated", task_id))

\* cmd_update
cmd_update(S, args, t) ==
  IF Len(args) = 0 \/ IsNone(ParseInt(args[1]))
  THEN Result(S.tasks, S.next_id, Message("cross", "Invalid task ID", 0))
  ELSE LET task_id == Val(ParseInt(args[1]))
           parsed == ParseChanges(args, 2, NoChanges)
       IN IF ~parsed.ok
          THEN Result(S.tasks, S.next_id, Message("cross", "Invalid status", 0))
          ELSE LET out == update(S, task_id, parsed.changes, t)
               IN IF out.exc = "KeyError"
                  THEN Result(out.tasks, out.next_id,
                              Message("cross", "Task not found", task_id))
                  ELSE Result(out.tasks, out.next_id,
                              Message("check", "Task updated", task_id))

\* cmd_delete
cmd_delete(S, args) ==
  IF Len(args) = 0 \/ IsNone(ParseInt(args[1]))
  THEN Result(S.tasks, S.next_id, Message("cross", "Invalid task ID", 0))
  ELSE LET task_id == Val(ParseInt(args[1]))
           out == delete(S, task_id)
       IN IF out.val = Some(TRUE)
          THEN Result(out.tasks, out.next_id,
                      Message("check", "Task deleted", task_id))
          ELSE Result(out.tasks, out.next_id,
                      Message("cross", "Task not found", task_id))

\* Argument lists of add: no title, blank titles, a title, a title with
\* a description, a --description flag without its value.
AddArgs ==
  {<<>>, <<"">>, <<" ">>, <<" a">>, <<" a", "--description", "d">>,
   <<" ", "--description", "d">>, <<" a", "--description">>}

\* The id argument: ids that can be stored, one that never is, a string
\* that is no integer.
IdArgs == {"1", "2", "7", "x"}

\* A flag with its value, a flag without one, a stray word, or nothing.
FlagArgs ==
  {<<>>, <<"--title", "">>, <<"--title", "b">>, <<"--description", "d">>,
   <<"--status", "completed">>, <<"--status", "pending">>,
   <<"--status", "bogus">>, <<"--status">>, <<"stray">>}

\* Argument lists of update: none, or an id followed by up to two flags.
UpdateArgs ==
  {<<>>} \cup {<<id>> \o f1 \o f2 : id \in IdArgs, f1 \in FlagArgs, f2 \in FlagArgs}

\* Argument lists of delete.
DeleteArgs == {<<>>} \cup {<<id>> : id \in IdArgs}

\* The command returns: the store and the message are what it left.
Return(op, r) ==
  /\ tasks' = r.tasks
  /\ next_id' = r.next_id
  /\ console' = [console EXCEPT !.printed = r.msg]
  /\ call' = [op |-> op, exc |-> "none", id |-> 0]
  /\ UNCHANGED <<now, thr, resp>>

\* cmd_add(args, store)
CmdAdd ==
  \E args \in {<<>>, <<" ">>, <<" a", "--description", "d">>} :
    LET r == cmd_add(Store, args, now)
    IN /\ next_id <= MaxAdds
       /\ Return("cmd_add", r)
       /\ added' = IF r.msg.mark = "check" THEN added + 1 ELSE added
       /\ UNCHANGED deleted

\* cmd_update(args, store)
CmdUpdate ==
  \E id \in {"1", "2", "x"},
     f1 \in {<<>>, <<"--title", "">>},
     f2 \in {<<"--status", "completed">>, <<"--status", "pending">>,
             <<"--status", "bogus">>} :
    /\ Return("cmd_update", cmd_update(Store, <<id>> \o f1 \o f2, now))
    /\ UNCHANGED <<added, deleted>>

\* cmd_delete(args, store)
CmdDelete ==
  \E args \in DeleteArgs :
    LET r == cmd_delete(Store, args)
    IN /\ Return("cmd_delete", r)
       /\ deleted' = IF r.msg.mark = "check"
                     THEN deleted \cup {r.msg.id} ELSE deleted
       /\ UNCHANGED added

\* The console commands that change the store, and the clock.

\* The lines of the table that cmd_list prints: id, title and status
\* column of each task.
Table(ts) ==
  [mark |-> "text", text |-> "table",
   rows |-> [k \in 1..Len(ts) |->
               [id |-> ts[k].id, title |-> ts[k].title,
                status |-> IF ts[k].completed THEN "completed" ELSE "pending"]]]

\* cmd_list
cmd_list(S, args) ==
  LET filter_by ==
        IF Len(args) > 0 /\ args[1] = "--filter" /\ Len(args) > 1
        THEN args[2] ELSE "all"
      out == list(S, filter_by)
  IN IF out.exc = "ValueError"
     THEN Result(out.tasks, out.next_id, Message("cross", "Invalid filter", 0))
     ELSE IF out.val = <<>>
     THEN Result(out.tasks, out.next_id, Message("info", "No tasks yet", 0))
     ELSE Result(out.tasks, out.next_id, Table(out.val))

\* The details that cmd_show prints.
Details(task) ==
  [mark |-> "text", text |-> "details", id |-> task.id, title |-> task.title,
   description |-> task.description,
   status |-> IF task.completed THEN "completed" ELSE "pending",
   created |-> task.created_at, completed |-> task.completed_at]

\* cmd_show
cmd_show(S, args) ==
  IF Len(args) = 0 \/ IsNone(ParseInt(args[1]))
  THEN Result(S.tasks, S.next_id, Message("cross", "Invalid task ID", 0))
  ELSE LET task_id == Val(ParseInt(args[1]))
           out == get(S, task_id)
       IN IF IsNone(out.val)
          THEN Result(out.tasks, out.next_id,
                      Message("cross", "Task not found", task_id))
          ELSE Result(out.tasks, out.next_id, Details(Val(out.val)))

\* cmd_help
cmd_help(S, args) == Result(S.tasks, S.next_id, Message("text", "help", 0))

\* A command name as typed is the sequence of its characters.
UpperCase ==
  <<"A", "B", "C", "D", "E", "F", "G", "H", "I", "J", "K", "L", "M",
    "N", "O", "P", "Q", "R", "S", "T", "U", "V", "W", "X", "Y", "Z">>

LowerCase ==
  <<"a", "b", "c", "d", "e", "f", "g", "h", "i", "j", "k", "l", "m",
    "n", "o", "p", "q", "r", "s", "t", "u", "v", "w", "x", "y", "z">>

\* lower that leaves every character as it is.
Lower_Keep(cs) == cs

\* str.lower()
Lower(cs) ==
  [k \in 1..Len(cs) |->
     IF \E n \in 1..26 : UpperCase[n] = cs[k]
     THEN LowerCase[CHOOSE n \in 1..26 : UpperCase[n] = cs[k]]
     ELSE cs[k]]

\* COMMAND_REGISTRY: the handler under a key, "none" where the key is
\* not in the registry.
COMMAND_REGISTRY(name) ==
  CASE name = <<"a", "d", "d">> -> "add"
    [] name = <<"l", "i", "s", "t">> -> "list"
    [] name = <<"s", "h", "o", "w">> -> "show"
    [] name = <<"u", "p", "d", "a", "t", "e">> -> "update"
    [] name = <<"d", "e", "l", "e", "t", "e">> -> "delete"
    [] name = <<"h", "e", "l", "p">> -> "help"
    [] OTHER -> "none"

\* dispatch: command.lower().strip(), ValueError for a name that is not
\* in the registry, the handler's message otherwise.
dispatch(S, command, args, t) ==
  LET command_lower == RStrip(LStrip(Lower(command)))
      handler == COMMAND_REGISTRY(command_lower)
      r == CASE handler = "add" -> cmd_add(S, args, t)
             [] handler = "list" -> cmd_list(S, args)
             [] handler = "show" -> cmd_show(S, args)
             [] handler = "update" -> cmd_update(S, args, t)
             [] handler = "delete" -> cmd_delete(S, args)
             [] handler = "help" -> cmd_help(S, args)
             [] OTHER -> Result(S.tasks, S.next_id, NoMessage)
  IN [tasks |-> r.tasks, next_id |-> r.next_id, msg |-> r.msg,
      exc |-> IF handler = "none" THEN "ValueError" ELSE "none"]

\* Command names as typed, each with the registry name it stands for
\* when case and surrounding blanks are put aside, "none" when for none.
CommandInputs ==
  {[typed |-> <<"a", "d", "d">>, names |-> "add"],
   [typed |-> <<"A", "D", "D">>, names |-> "add"],
   [typed |-> <<" ", "A", "d", "d", " ">>, names |-> "add"],
   [typed |-> <<"l", "i", "s", "t">>, names |-> "list"],
   [typed |-> <<"S", "h", "o", "w">>, names |-> "show"],
   [typed |-> <<"U", "P", "D", "A", "T", "E", " ">>, names |-> "update"],
   [typed |-> <<" ", "d", "e", "l", "e", "t", "e">>, names |-> "delete"],
   [typed |-> <<"h", "e", "l", "p">>, names |-> "help"],
   [typed |-> <<"q", "u", "i", "t">>, names |-> "none"],
   [typed |-> <<"a", "d">>, names |-> "none"],
   [typed |-> <<"a", " ", "d", "d">>, names |-> "none"],
   [typed |-> <<>>, names |-> "none"],
   [typed |-> <<"a", "d", "d", "s">>, names |-> "none"]}

\* Argument lists handed to dispatch.
DispatchArgs ==
  {<<>>, <<" a">>, <<"1">>, <<"1", "--status", "completed">>,
   <<"--filter", "completed">>}

\* The dispatch calls made here: each registry name once, in some
\* spelling, and a name that is not in the registry.
DispatchCalls ==
  {[command |-> <<"A", "D", "D">>, args |-> <<" a">>],
   [command |-> <<"l", "i", "s", "t">>, args |-> <<>>],
   [command |-> <<"S", "h", "o", "w">>, args |-> <<"1">>],
   [command |-> <<"U", "P", "D", "A", "T", "E", " ">>,
    args |-> <<"1", "--status", "completed">>],
   [command |-> <<" ", "d", "e", "l", "e", "t", "e">>, args |-> <<"1">>],
   [command |-> <<"h", "e", "l", "p">>, args |-> <<>>],
   [command |-> <<"q", "u", "i", "t">>, args |-> <<>>]}

\* dispatch(command, args, store)
Dispatch ==
  \E d \in DispatchCalls :
    LET r == dispatch(Store, d.command, d.args, now)
    IN /\ (r.next_id # next_id => next_id <= MaxAdds)
       /\ tasks' = r.tasks
       /\ next_id' = r.next_id
       /\ console' = [console EXCEPT !.printed = r.msg]
       /\ call' = [op |-> "dispatch", exc |-> r.exc, id |-> 0]
       /\ added' = IF r.msg.text = "Task added with ID"
                   THEN added + 1 ELSE added
       /\ deleted' = IF r.msg.text = "Task deleted"
                     THEN deleted \cup {r.msg.id} ELSE deleted
       /\ UNCHANGED <<now, thr, resp>>

\* The console commands, called directly or through dispatch.
NextCommands == CmdAdd \/ CmdUpdate \/ CmdDelete \/ Dispatch

SpecCommands == Init /\ [][NextCommands]_vars

\* C24: when cmd_add, cmd_update or cmd_delete returns a message that
\* starts with the cross, the tasks and the id counter are as before; a
\* missing or blank title, a missing or non-integer id, an unknown id and
\* an invalid --status value, also next to a valid --title or
\* --description, all return such a message.
C24_CrossLeavesStore ==
  LET Same(r) == r.tasks = tasks /\ r.next_id = next_id
      Cross(r) == r.msg.mark = "cross"
  IN /\ \A args \in AddArgs :
          LET r == cmd_add(Store, args, now)
          IN /\ Cross(r) => Same(r)
             /\ (Len(args) = 0 \/ IsBlank(args[1])) => Cross(r)
     /\ \A args \in UpdateArgs :
          LET r == cmd_update(Store, args, now)
          IN /\ Cross(r) => Same(r)
             /\ (\/ Len(args) = 0
                 \/ IsNone(ParseInt(args[1]))
                 \/ Val(ParseInt(args[1])) \notin StoredIds
                 \/ \E i \in 2..(Len(args) - 1) :
                      args[i] = "--status" /\ args[i + 1] = "bogus")
                => Cross(r)
     /\ \A args \in DeleteArgs :
          LET r == cmd_delete(Store, args)
          IN /\ Cross(r) => Same(r)
             /\ (\/ Len(args) = 0
                 \/ IsNone(ParseInt(args[1]))
                 \/ Val(ParseInt(args[1])) \notin StoredIds) => Cross(r)

\* cmd_update returned the invalid-status message with a pending task
\* stored whose title is the one it was added with.
C24_Witness ==
  /\ call.op = "cmd_update"
  /\ console.printed = Message("cross", "Invalid status", 0)
  /\ Len(tasks) = 1 /\ tasks[1].title = " a" /\ ~tasks[1].completed

\* ------------------------------------------------------------------ C25

\* C25: dispatch runs the handler that the typed name stands for when
\* case and surrounding blanks are put aside; for a name that stands for
\* none it raises ValueError and leaves the tasks and the id counter as
\* they were, and a dispatch after that still adds a task and lists the
\* tasks that were stored before the error.
C25_DispatchMatchesAndRecovers ==
  \A c \in CommandInputs, args \in DispatchArgs :
    LET r == dispatch(Store, c.typed, args, now)
        after == [tasks |-> r.tasks, next_id |-> r.next_id]
    IN IF c.names = "none"
       THEN /\ r.exc = "ValueError"
            /\ r.tasks = tasks /\ r.next_id = next_id
            /\ dispatch(after, <<"a", "d", "d">>, <<" a">>, now).msg
                 = Message("check", "Task added with ID", next_id)
            /\ dispatch(after, <<"l", "i", "s", "t">>, <<>>, now).msg
                 = IF tasks = <<>> THEN Message("info", "No tasks yet", 0)
                   ELSE Table(tasks)
       ELSE /\ r.exc = "none"
            /\ Result(r.tasks, r.next_id, r.msg)
                 = CASE c.names = "add" -> cmd_add(Store, args, now)
                     [] c.names = "list" -> cmd_list(Store, args)
                     [] c.names = "show" -> cmd_show(Store, args)
                     [] c.names = "update" -> cmd_update(Store, args, now)
                     [] c.names = "delete" -> cmd_delete(Store, args)
                     [] c.names = "help" -> cmd_help(Store, args)

\* A dispatch listed the two stored tasks, one of them completed.
C25_Witness ==
  /\ call.op = "dispatch" /\ call.exc = "none"
  /\ Len(tasks) = 2 /\ tasks[1].completed
  /\ console.printed = Table(tasks)

\* ------------------------------------------------------------------ C26

\* The flags of an update command, each with the keyword arguments of
\* TaskStore.update that it stands for.
FlagMeanings ==
  {[args |-> <<>>, changes |-> NoChanges],
   [args |-> <<"--title", "b">>,
    changes |-> [NoChanges EXCEPT !.title = Some("b")]],
   [args |-> <<"--description", "e">>,
    changes |-> [NoChanges EXCEPT !.description = Some("e")]],
   [args |-> <<"--status", "completed">>,
    changes |-> [NoChanges EXCEPT !.completed = Some(TRUE)]],
   [args |-> <<"--status", "pending">>,
    changes |-> [NoChanges EXCEPT !.completed = Some(FALSE)]],
   [args |-> <<"--status", "completed", "--title", "b">>,
    changes |-> [NoChanges EXCEPT !.completed = Some(TRUE),
                                  !.title = Some("b")]],
   [args |-> <<"--title", "b", "--description", "e", "--status", "pending">>,
    changes |-> [NoChanges EXCEPT !.title = Some("b"),
                                  !.description = Some("e"),
                                  !.completed = Some(FALSE)]]}

\* The id argument of a command, with the number it stands for.
IdMeanings == {[arg |-> "1", id |-> 1], [arg |-> "2", id |-> 2]}

\* C26: cmd_update on the id of a stored task leaves the store as the
\* TaskStore.update call with the corresponding keywords leaves it and
\* returns the check message: --status completed stamps completed_at on
\* a pending task, --status pending clears it, --title and --description
\* replace the fields.
C26_CmdUpdateActsAsUpdate ==
  \A m \in IdMeanings, f \in FlagMeanings :
    m.id \in StoredIds =>
      LET r == cmd_update(Store, <<m.arg>> \o f.args, now)
          out == update(Store, m.id, f.changes, now)
          was == Val(get(Store, m.id).val)
          is == Val(get([tasks |-> r.tasks, next_id |-> r.next_id], m.id).val)
      IN /\ r = Result(out.tasks, out.next_id,
                       Message("check", "Task updated", m.id))
         /\ f.changes.completed = Some(TRUE) =>
              /\ is.completed
              /\ ~was.completed => is.completed_at = Some(now)
         /\ f.changes.completed = Some(FALSE) =>
              ~is.completed /\ is.completed_at = None
         /\ IsSome(f.changes.title) => is.title = Val(f.changes.title)
         /\ IsSome(f.changes.description) =>
              is.description = Val(f.changes.description)

\* cmd_update completed task 1 and replaced its title.
C26_Witness ==
  /\ call.op = "cmd_update"
  /\ console.printed = Message("check", "Task updated", 1)
  /\ Len(tasks) > 0 /\ tasks[1].id = 1
  /\ tasks[1].completed /\ tasks[1].title = ""

\* ------------------------------------------------------------------ C27

\* C27: update(id, title=t) on a stored task with t empty or made of
\* whitespace raises nothing and leaves t as the stored title.
C27_UpdateTakesBlankTitle ==
  \A task_id \in StoredIds, title \in {ti \in Titles : IsBlank(ti)} :
    LET out == update(Store, task_id,
                      [NoChanges EXCEPT !.title = Some(title)], now)
    IN /\ out.exc = "none"
       /\ Val(get([tasks |-> out.tasks, next_id |-> out.next_id],
                  task_id).val).title = title
       /\ Val(out.val).title = title

\* An update left the second of two tasks with an empty title.
C27_Witness ==
  /\ call.op = "update" /\ call.exc = "none"
  /\ Len(tasks) = 2 /\ tasks[2].title = "" /\ tasks[1].title = " a"

\* ------------------------------------------------------------------ C28
\* The console front end: the loop of run() in src/src/app.py.

\* MENU_COMMANDS: the command under a menu key, <<>> where the key is
\* not in the menu.
MENU_COMMANDS(key) ==
  CASE key = <<"1">> -> <<"a", "d", "d">>
    [] key = <<"2">> -> <<"l", "i", "s", "t">>
    [] key = <<"3">> -> <<"s", "h", "o", "w">>
    [] key = <<"4">> -> <<"u", "p", "d", "a", "t", "e">>
    [] key = <<"5">> -> <<"d", "e", "l", "e", "t", "e">>
    [] key = <<"6">> -> <<"h", "e", "l", "p">>
    [] key = <<"7">> -> <<"q", "u", "i", "t">>
    [] OTHER -> <<>>

\* The strings that the characters of an answer are turned back into.
Strings == {"", " ", " a", "a", "d", "1", "--filter", "completed"}

\* The str with these characters.
StrOf(cs) == CHOOSE s \in Strings : Chars(s) = cs

\* input(...).strip() for an answer to one of the menu's prompts.
Stripped(answer) == StrOf(strip(answer))

\* The args that the menu branch builds from the answers to its prompts;
\* eof is true where one of the input() calls it makes meets
\* end-of-input or an interrupt (an answer that is None).  The answer to
\* the updates prompt is given as the words shlex.split finds in it.
MenuArgs(command, answers) ==
  LET Eof(k) == IsNone(answers[k])
      Ans(k) == Val(answers[k])
  IN CASE command \in {<<"s", "h", "o", "w">>,
                       <<"d", "e", "l", "e", "t", "e">>} ->
            IF Eof(1) THEN [eof |-> TRUE, args |-> <<>>]
            ELSE [eof |-> FALSE,
                  args |-> IF Stripped(Ans(1)) # ""
                           THEN <<Stripped(Ans(1))>> ELSE <<>>]
       [] command = <<"u", "p", "d", "a", "t", "e">> ->
            IF Eof(1) \/ Eof(2) THEN [eof |-> TRUE, args |-> <<>>]
            ELSE [eof |-> FALSE,
                  args |-> (IF Stripped(Ans(1)) # ""
                            THEN <<Stripped(Ans(1))>> ELSE <<>>) \o Ans(2)]
       [] command = <<"a", "d", "d">> ->
            IF Eof(1) THEN [eof |-> TRUE, args |-> <<>>]
            ELSE IF Stripped(Ans(1)) = "" THEN [eof |-> FALSE, args |-> <<>>]
            ELSE IF Eof(2) THEN [eof |-> TRUE, args |-> <<>>]
            ELSE [eof |-> FALSE,
                  args |-> IF Stripped(Ans(2)) # ""
                           THEN <<Stripped(Ans(1)), "--description",
                                  Stripped(Ans(2))>>
                           ELSE <<Stripped(Ans(1))>>]
       [] command = <<"l", "i", "s", "t">> ->
            IF Eof(1) THEN [eof |-> TRUE, args |-> <<>>]
            ELSE LET filter_opt ==
                       IF Stripped(Ans(1)) = "" THEN "all"
                       ELSE Stripped(Ans(1))
                 IN [eof |-> FALSE,
                     args |-> IF filter_opt # "all"
                              THEN <<"--filter", filter_opt>> ELSE <<>>]
       [] OTHER -> [eof |-> FALSE, args |-> <<>>]

\* What one pass of the loop leaves: the store, whether the loop goes
\* on, and the message it printed, NoMessage when it printed none.
Pass(ts, nid, running, printed) ==
  [tasks |-> ts, next_id |-> nid, running |-> running, printed |-> printed]

Goodbye == Message("text", "Goodbye!", 0)

\* A pass in which the name that dispatch rejects ends the loop.
run_pass_NoRecover(S, inp, t) ==
  IF inp.kind \in {"eof", "interrupt"}
  THEN Pass(S.tasks, S.next_id, FALSE, Goodbye)
  ELSE LET user_input == RStrip(LStrip(inp.first))
           menu == inp.args = <<>> /\ MENU_COMMANDS(user_input) # <<>>
           command == IF menu THEN MENU_COMMANDS(user_input)
                      ELSE Lower(user_input)
           built == IF menu THEN MenuArgs(command, inp.answers)
                    ELSE [eof |-> FALSE, args |-> inp.args]
       IN IF ~Truthy(user_input)
          THEN Pass(S.tasks, S.next_id, TRUE, NoMessage)
          ELSE IF built.eof
          THEN Pass(S.tasks, S.next_id, FALSE, Goodbye)
          ELSE IF command \in {<<"q", "u", "i", "t">>, <<"e", "x", "i", "t">>}
          THEN Pass(S.tasks, S.next_id, FALSE, Goodbye)
          ELSE LET r == dispatch(S, command, built.args, t)
               IN CASE r.exc = "none" ->
                         Pass(r.tasks, r.next_id, TRUE, r.msg)
                    [] r.exc = "ValueError" ->
                         Pass(r.tasks, r.next_id, FALSE,
                              Message("cross", "Unknown command", 0))
                    [] OTHER ->
                         Pass(r.tasks, r.next_id, TRUE,
                              Message("cross", "An unexpected error occurred", 0))

\* One pass of the while loop of run().  An input is end-of-input, an
\* interrupt, or a line: first is the first word of the line with the
\* blanks around it (no characters, or blanks only, for a line without
\* words), args the other words as shlex.split gives them, answers the
\* answers to the prompts of the menu branch.
run_pass(S, inp, t) ==
  IF inp.kind \in {"eof", "interrupt"}
  THEN Pass(S.tasks, S.next_id, FALSE, Goodbye)
  ELSE LET user_input == RStrip(LStrip(inp.first))
           menu == inp.args = <<>> /\ MENU_COMMANDS(user_input) # <<>>
           command == IF menu THEN MENU_COMMANDS(user_input)
                      ELSE Lower(user_input)
           built == IF menu THEN MenuArgs(command, inp.answers)
                    ELSE [eof |-> FALSE, args |-> inp.args]
       IN IF ~Truthy(user_input)
          THEN Pass(S.tasks, S.next_id, TRUE, NoMessage)
          ELSE IF built.eof
          THEN Pass(S.tasks, S.next_id, FALSE, Goodbye)
          ELSE IF command \in {<<"q", "u", "i", "t">>, <<"e", "x", "i", "t">>}
          THEN Pass(S.tasks, S.next_id, FALSE, Goodbye)
          ELSE LET r == dispatch(S, command, built.args, t)
               IN CASE r.exc = "none" ->
                         Pass(r.tasks, r.next_id, TRUE, r.msg)
                    [] r.exc = "ValueError" ->
                         Pass(r.tasks, r.next_id, TRUE,
                              Message("cross", "Unknown command", 0))
                    [] OTHER ->
                         Pass(r.tasks, r.next_id, TRUE,
                              Message("cross", "An unexpected error occurred", 0))

\* What is entered at the prompt, each input with whether the loop is to
\* end on it and whether it is a line without words.
RunInputs ==
  {[kind |-> "eof", first |-> <<>>, args |-> <<>>, answers |-> <<>>,
    ends |-> TRUE, silent |-> FALSE],
   [kind |-> "interrupt", first |-> <<>>, args |-> <<>>, answers |-> <<>>,
    ends |-> TRUE, silent |-> FALSE],
   [kind |-> "line", first |-> <<>>, args |-> <<>>, answers |-> <<>>,
    ends |-> FALSE, silent |-> TRUE],
   [kind |-> "line", first |-> <<" ", " ">>, args |-> <<>>, answers |-> <<>>,
    ends |-> FALSE, silent |-> TRUE],
   [kind |-> "line", first |-> <<"q", "u", "i", "t">>, args |-> <<>>, answers |-> <<>>,
    ends |-> TRUE, silent |-> FALSE],
   [kind |-> "line", first |-> <<" ", "E", "X", "I", "T", " ">>, args |-> <<>>, answers |-> <<>>,
    ends |-> TRUE, silent |-> FALSE],
   [kind |-> "line", first |-> <<"Q", "u", "i", "t">>, args |-> <<"1">>, answers |-> <<>>,
    ends |-> TRUE, silent |-> FALSE],
   [kind |-> "line", first |-> <<"7">>, args |-> <<>>, answers |-> <<>>,
    ends |-> TRUE, silent |-> FALSE],
   [kind |-> "line", first |-> <<"b", "o", "g", "u", "s">>, args |-> <<>>, answers |-> <<>>,
    ends |-> FALSE, silent |-> FALSE],
   [kind |-> "line", first |-> <<"8">>, args |-> <<>>, answers |-> <<>>,
    ends |-> FALSE, silent |-> FALSE],
   [kind |-> "line", first |-> <<"a", "d", "d">>, args |-> <<" a">>, answers |-> <<>>,
    ends |-> FALSE, silent |-> FALSE],
   [kind |-> "line", first |-> <<"A", "D", "D">>, args |-> <<" ">>, answers |-> <<>>,
    ends |-> FALSE, silent |-> FALSE],
   [kind |-> "line", first |-> <<"u", "p", "d", "a", "t", "e">>, args |-> <<"1", "--status", "completed">>, answers |-> <<>>,
    ends |-> FALSE, silent |-> FALSE],
   [kind |-> "line", first |-> <<"u", "p", "d", "a", "t", "e">>, args |-> <<"1", "--status", "bogus">>, answers |-> <<>>,
    ends |-> FALSE, silent |-> FALSE],
   [kind |-> "line", first |-> <<"d", "e", "l", "e", "t", "e">>, args |-> <<"1">>, answers |-> <<>>,
    ends |-> FALSE, silent |-> FALSE],
   [kind |-> "line", first |-> <<"d", "e", "l", "e", "t", "e">>, args |-> <<"x">>, answers |-> <<>>,
    ends |-> FALSE, silent |-> FALSE],
   [kind |-> "line", first |-> <<"l", "i", "s", "t">>, args |-> <<>>, answers |-> <<>>,
    ends |-> FALSE, silent |-> FALSE],
   [kind |-> "line", first |-> <<"1">>, args |-> <<>>, answers |-> <<Some(" a"), Some("d")>>,
    ends |-> FALSE, silent |-> FALSE],
   [kind |-> "line", first |-> <<"1">>, args |-> <<>>, answers |-> <<Some(" ")>>,
    ends |-> FALSE, silent |-> FALSE],
   [kind |-> "line", first |-> <<"1">>, args |-> <<>>, answers |-> <<Some(" a"), None>>,
    ends |-> TRUE, silent |-> FALSE],
   [kind |-> "line", first |-> <<"2">>, args |-> <<>>, answers |-> <<Some("")>>,
    ends |-> FALSE, silent |-> FALSE],
   [kind |-> "line", first |-> <<"2">>, args |-> <<>>, answers |-> <<Some("completed")>>,
    ends |-> FALSE, silent |-> FALSE],
   [kind |-> "line", first |-> <<"2">>, args |-> <<>>, answers |-> <<Some("d")>>,
    ends |-> FALSE, silent |-> FALSE],
   [kind |-> "line", first |-> <<"3">>, args |-> <<>>, answers |-> <<Some("1")>>,
    ends |-> FALSE, silent |-> FALSE],
   [kind |-> "line", first |-> <<"3">>, args |-> <<>>, answers |-> <<None>>,
    ends |-> TRUE, silent |-> FALSE],
   [kind |-> "line", first |-> <<"4">>, args |-> <<>>, answers |-> <<Some("1"), Some(<<"--status", "completed">>)>>,
    ends |-> FALSE, silent |-> FALSE],
   [kind |-> "line", first |-> <<"4">>, args |-> <<>>, answers |-> <<Some(""), Some(<<>>)>>,
    ends |-> FALSE, silent |-> FALSE],
   [kind |-> "line", first |-> <<"5">>, args |-> <<>>, answers |-> <<Some("1")>>,
    ends |-> FALSE, silent |-> FALSE],
   [kind |-> "line", first |-> <<"6">>, args |-> <<>>, answers |-> <<>>,
    ends |-> FALSE, silent |-> FALSE]}

\* One pass of the loop of run() over its store.
RunPass ==
  \E inp \in RunInputs : \E r \in {run_pass(Store, inp, now)} :
       /\ console.running
       /\ (r.next_id # next_id => next_id <= MaxAdds)
       /\ tasks' = r.tasks
       /\ next_id' = r.next_id
       /\ console' = [running |-> r.running, printed |-> r.printed]
       /\ call' = [op |-> "run", exc |-> "none", id |-> 0]
       /\ added' = IF r.printed.text = "Task added with ID"
                   THEN added + 1 ELSE added
       /\ deleted' = IF r.printed.text = "Task deleted"
                     THEN deleted \cup {r.printed.id} ELSE deleted
       /\ UNCHANGED <<now, thr, resp>>

\* run() creates its own store; only the loop and the clock act on it.
NextRun == Tick \/ RunPass

SpecRun == Init /\ [][NextRun]_vars

\* What the loop does on every input: it ends exactly on the inputs that
\* are to end it (quit, exit, menu key 7, end-of-input, interrupt), an
\* ending pass and a pass on a line without words leave the store as it
\* was, and every other pass leaves the store as dispatch leaves it.
RunContract ==
  \A inp \in RunInputs :
    LET r == run_pass(Store, inp, now)
    IN /\ r.running = ~inp.ends
       /\ (inp.ends \/ inp.silent) => r.tasks = tasks /\ r.next_id = next_id
       /\ inp.silent => r.printed = NoMessage
       /\ ~(inp.ends \/ inp.silent) =>
            /\ r.printed # NoMessage
            /\ r.printed.mark = "cross" => r.tasks = tasks /\ r.next_id = next_id

C29_UpdateIdempotent ==
  \A task_id \in Ids, changes \in DocChanges, later \in Times :
    later >= now =>
      LET once == update(Store, task_id, changes, now)
          twice == update([tasks |-> once.tasks, next_id |-> once.next_id],
                          task_id, changes, later)
      IN /\ twice.tasks = once.tasks
         /\ twice.next_id = once.next_id
         /\ twice.exc = once.exc
         /\ twice.val = once.val

\* An update ran when the clock had moved past the completed_at of a
\* completed task.
C29_Witness ==
  /\ call.op = "update" /\ call.exc = "none"
  /\ now = MaxTime
  /\ \E i \in 1..Len(tasks) :
       tasks[i].completed /\ tasks[i].completed_at = Some(0)

\* ------------------------------------------------------------------ C30
\* Two delete calls run by two threads on the shared store.

\* delete, first step: the loop finds the index of the task with the id,
\* or ends without a match and the call returns False. No two running
\* calls are for the same id.
DelFind(t) ==
  \E task_id \in Ids :
    /\ thr[t].pc = "idle"
    /\ \A u \in Threads : ~(thr[u].pc = "del_pop" /\ thr[u].task_id = task_id)
    /\ IF task_id \in StoredIds
       THEN /\ thr' = [thr EXCEPT ![t] =
                       [Idle EXCEPT !.pc = "del_pop", !.task_id = task_id,
                                    !.ref = IndexOf(tasks, task_id)]]
            /\ UNCHANGED call
       ELSE /\ call' = [op |-> "delete", exc |-> "none", id |-> task_id]
            /\ UNCHANGED thr
    /\ UNCHANGED <<tasks, next_id, now, added, deleted, resp, console>>

\* delete, second step: self._tasks.pop(i) and return True; pop raises
\* IndexError when the list has become shorter than i.
DelPop(t) ==
  LET i == thr[t].ref
  IN /\ thr[t].pc = "del_pop"
     /\ IF i <= Len(tasks)
        THEN /\ tasks' = Pop(tasks, i)
             /\ deleted' = deleted \cup {thr[t].task_id}
             /\ call' = [op |-> "delete", exc |-> "none", id |-> 0]
        ELSE /\ call' = [op |-> "delete", exc |-> "IndexError", id |-> 0]
             /\ UNCHANGED <<tasks, deleted>>
     /\ thr' = [thr EXCEPT ![t] = Idle]
     /\ UNCHANGED <<next_id, now, added, resp, console>>

\* Tasks are added one call at a time; deletes run in the threads.
NextConcDelete == Tick \/ Add \/ \E t \in Threads : DelFind(t) \/ DelPop(t)

SpecConcDelete == Init /\ [][NextConcDelete]_vars

\* C30: with the two steps of concurrent delete calls for different
\* stored ids interleaved in any order, no call fails, and the tasks
\* stored are the tasks added less those whose delete returned True.
C30_ConcurrentDeletesRemoveOwn ==
  /\ call.op = "delete" => call.exc = "none"
  /\ StoredIds = (1..added) \ deleted
  /\ Len(tasks) = Cardinality(StoredIds)

====
